---- MODULE Spec2Model ----
(***************************************************************************)
(* A model of the AirThingsApi client (fetch-based version): one cached    *)
(* access token, six resource operations, each of which refreshes the      *)
(* token when isTokenExpired() says so and then issues one GET.            *)
(*                                                                         *)
(* An invocation of an async method runs in segments separated by awaits.  *)
(* Each segment is one action: Start (the synchronous part up to the first *)
(* fetch), TokenSettled (the POST's fetch settles and the then/catch       *)
(* handlers run), StoreToken (the assignment to this.accessToken once the  *)
(* awaited promise is fulfilled), Resume (the caller continues after       *)
(* `await this.updateToken()`), GetSettled (the GET's fetch settles and    *)
(* the then/catch handlers run).  Date.now() is the variable now, which    *)
(* Tick advances.                                                          *)
(***************************************************************************)
EXTENDS Integers, Sequences, FiniteSets, TLC

VARIABLES accessToken, now, call, started, ticks, exchange

vars == <<accessToken, now, call, started, ticks, exchange>>

(***************************************************************************)
(* Bounds of the model.                                                    *)
(***************************************************************************)
\* total number of invocations of resource operations in one behaviour
MaxCalls == 2
\* number of times the clock is advanced in one behaviour
MaxTicks == 2
\* the invocations that may be in progress at the same time
Calls == {"c1", "c2"}
\* the invocation slot used when calls are made one after the other
Caller == "c1"
\* the amounts (ms) by which the clock advances between two steps
TickSteps == {1, 3585, 3599000}

(***************************************************************************)
(* JavaScript values.  An optional value (a possibly undefined or null     *)
(* one) is a sequence of length 0 or 1; a number is a record that is       *)
(* either NaN or an integer.                                               *)
(***************************************************************************)
Undefined == << >>
Some(v) == <<v>>
Null == << >>

Num(n) == [nan |-> FALSE, n |-> n]
NaN == [nan |-> TRUE, n |-> 0]

\* obj.f : undefined when the object has no such property
Field(obj, f) == IF f \in DOMAIN obj THEN Some(obj[f]) ELSE Undefined

\* undefined converts to NaN in an arithmetic expression
ToNumber(o) == IF o = Undefined THEN NaN ELSE Num(o[1])

JsAdd(a, b) == IF a.nan \/ b.nan THEN NaN ELSE Num(a.n + b.n)
JsSub(a, b) == IF a.nan \/ b.nan THEN NaN ELSE Num(a.n - b.n)
\* a < b : false as soon as one side is NaN
JsLess(a, b) == ~a.nan /\ ~b.nan /\ a.n < b.n

\* `${v}` for a string-or-undefined value
StrOfString(o) == IF o = Undefined THEN "undefined" ELSE o[1]
\* `${v}` for a boolean-or-undefined value
StrOfBool(o) == IF o = Undefined THEN "undefined" ELSE IF o[1] THEN "true" ELSE "false"
\* `${v}` for a number-or-undefined value
StrOfNumber(o) == IF o = Undefined THEN "undefined" ELSE ToString(o[1])

(***************************************************************************)
(* HTTP.  fetch either rejects (transport failure) or resolves with a      *)
(* response of any status; the text of a response is JSON or not.          *)
(***************************************************************************)
Rejected == [kind |-> "reject"]
Response(s, t) == [kind |-> "response", status |-> s, text |-> t]
Json(v) == [json |-> TRUE, value |-> v]
NotJson == [json |-> FALSE]

ErrorJson == [message |-> "error"]

\* bodies the token endpoint sends on success
TokenBodies ==
    { [access_token |-> "abc", token_type |-> "Bearer", expires_in |-> 3600],
      [access_token |-> "def", token_type |-> "Bearer", expires_in |-> 10] }

TokenOutcomes ==
    {Rejected}
    \cup {Response(200, Json(b)) : b \in TokenBodies}
    \cup {Response(401, Json(ErrorJson)), Response(401, NotJson)}


(***************************************************************************)
(* Resource endpoints.                                                     *)
(***************************************************************************)
DeviceIds == {"x"}
LocationIds == {"loc"}

\* the objects a caller passes to getDeviceList
QueryParams ==
    { [showInactive |-> TRUE, limit |-> 5, offset |-> 10],
      [limit |-> 5],
      [showInactive |-> TRUE, offset |-> 10] }

\* the default value of the queryParams parameter
DefaultQueryParams == [showInactive |-> FALSE, limit |-> 10, offset |-> 0]

SamplesValue == [co2 |-> 500]
DeviceValue == [id |-> "x", deviceType |-> "WAVE_PLUS"]
LocationValue == [id |-> "loc", name |-> "Home"]
Array(s) == [items |-> s]

\* the body a resource endpoint sends with status 200
OkBody(op) ==
    CASE op = "getDeviceList" -> [devices |-> Array(<<DeviceValue>>)]
      [] op = "getDevice" -> DeviceValue
      [] op = "getDeviceSamples" -> [data |-> SamplesValue]
      [] op = "getLocations" -> [locations |-> Array(<<LocationValue>>)]
      [] op = "getLocation" ->
            [id |-> "loc", name |-> "Home", devices |-> Array(<<DeviceValue>>)]
      [] op = "getLocationSamples" ->
            [id |-> "loc", name |-> "Home",
             devices |-> Array(<<[id |-> "x", data |-> SamplesValue]>>)]

GetOutcomes(op) ==
    { Rejected,
      Response(200, Json(OkBody(op))),
      Response(500, Json(ErrorJson)),
      Response(500, NotJson) }

BaseUrl == "https://ext-api.airthings.com/v1"

\* the URL of getDeviceList: a default parameter value replaces only a
\* missing (undefined) argument, never a missing property of the argument
DeviceListUrl(arg) ==
    LET queryParams == IF arg = Undefined THEN DefaultQueryParams ELSE arg[1]
    IN  BaseUrl \o "/devices?showInactive="
            \o StrOfBool(Field(queryParams, "showInactive"))
            \o "&limit=" \o StrOfNumber(Field(queryParams, "limit"))
            \o "&offset=" \o StrOfNumber(Field(queryParams, "offset"))

Url(op, arg, id) ==
    CASE op = "getDeviceList" -> DeviceListUrl(arg)
      [] op = "getDevice" -> BaseUrl \o "/devices/" \o id
      [] op = "getDeviceSamples" -> BaseUrl \o "/devices/" \o id \o "/latest-samples"
      [] op = "getLocations" -> BaseUrl \o "/locations"
      [] op = "getLocation" -> BaseUrl \o "/locations/" \o id
      [] op = "getLocationSamples" -> BaseUrl \o "/locations/" \o id \o "/latest-samples"

\* what the then-handler of an operation returns for a parsed body
Project(op, value) ==
    CASE op = "getDeviceList" -> Field(value, "devices")
      [] op = "getLocations" -> Field(value, "locations")
      [] OTHER -> Some(value)

(***************************************************************************)
(* The token.                                                              *)
(***************************************************************************)
Skew == 15

\* variant: a missing token is not reported as expired
isTokenExpiredNullOk(tok, t) ==
    IF tok = Null THEN FALSE
    ELSE JsLess(JsSub(tok[1].expiresAt, Num(Skew)), Num(t))

\* variant: the margin is taken in the wrong unit, so that every token of
\* an hour or less is reported as expired
isTokenExpiredUnit(tok, t) ==
    IF tok = Null THEN TRUE
    ELSE JsLess(JsSub(tok[1].expiresAt, Num(Skew * 1000)), Num(t))

\* variant: the comparison is not strict
isTokenExpiredLe(tok, t) ==
    IF tok = Null THEN TRUE
    ELSE LET e == JsSub(tok[1].expiresAt, Num(Skew))
         IN  JsLess(e, Num(t)) \/ (~e.nan /\ e.n = t)

isTokenExpired(tok, t) ==
    IF tok = Null THEN TRUE
    ELSE JsLess(JsSub(tok[1].expiresAt, Num(Skew)), Num(t))

\* the AccessToken the then-handler of updateToken builds from the body
BuildToken(data, t) ==
    [token |-> Field(data, "access_token"),
     type |-> Field(data, "token_type"),
     expiresAt |-> JsAdd(ToNumber(Field(data, "expires_in")), Num(t))]

handleError(message) == "airthings-api error: " \o message

(***************************************************************************)
(* State.  call[c] is the invocation in slot c: its position (pc), its     *)
(* arguments, the requests it has issued and its outcome.  The fields      *)
(* first, tokenAtStart, tokenOutcome, tokenAtGet and getOutcome record     *)
(* what happened, for the properties; the program does not read them.      *)
(* exchange records the token exchange whose token was stored last.        *)
(***************************************************************************)
NoOutcome == [kind |-> "none"]

IdleCall ==
    [pc |-> "idle", op |-> "none", queryParams |-> Undefined, id |-> "",
     posts |-> 0, postsDone |-> 0, gets |-> 0,
     url |-> "", authorization |-> "",
     result |-> Undefined, error |-> "",
     first |-> FALSE, tokenAtStart |-> Null,
     tokenOutcome |-> NoOutcome,
     tokenAtGet |-> Null, getOutcome |-> NoOutcome]

Init ==
    /\ accessToken = Null
    /\ now = 0
    /\ call = [c \in Calls |-> IdleCall]
    /\ started = 0
    /\ ticks = 0
    /\ exchange = Undefined

Finished(c) == call[c].pc \in {"returned", "raised"}

\* `if (!this.accessToken) throw ...` followed by the fetch of the resource
IssueGet(rec) ==
    IF accessToken' = Null
    THEN [rec EXCEPT !.pc = "raised", !.error = "No access token"]
    ELSE [rec EXCEPT !.pc = "awaitGet",
                     !.gets = @ + 1,
                     !.url = Url(rec.op, rec.queryParams, rec.id),
                     !.authorization =
                         "Bearer " \o StrOfString(accessToken'[1].token),
                     !.tokenAtGet = accessToken']

\* an operation is invoked: the synchronous part of the method, which
\* ends with the POST to the token endpoint or with the GET
Start(c, op, arg, id) ==
    /\ call[c].pc = "idle" \/ Finished(c)
    /\ started < MaxCalls
    /\ started' = started + 1
    /\ UNCHANGED <<accessToken, now, ticks, exchange>>
    /\ LET rec == [IdleCall EXCEPT !.op = op, !.queryParams = arg, !.id = id,
                                   !.first = (started = 0),
                                   !.tokenAtStart = accessToken]
       IN  call' = [call EXCEPT ![c] =
                IF isTokenExpired(accessToken, now)
                THEN [rec EXCEPT !.pc = "awaitToken", !.posts = @ + 1]
                ELSE IssueGet(rec)]

\* the POST settles.  fetch rejects, or it resolves (whatever the status)
\* and the then-handler parses the text and builds the token, which
\* `this.accessToken = await ...` stores; a rejection or a throw of
\* JSON.parse goes to the catch-handler, and the assignment is skipped
TokenSettled(c, outcome) ==
    /\ call[c].pc = "awaitToken"
    /\ UNCHANGED <<now, started, ticks>>
    /\ LET rec == [call[c] EXCEPT !.postsDone = @ + 1,
                                  !.tokenOutcome = outcome]
       IN  IF outcome.kind = "reject"
           THEN /\ call' = [call EXCEPT ![c] =
                        [rec EXCEPT !.pc = "raised",
                                    !.error = handleError("fetch failed")]]
                /\ UNCHANGED <<accessToken, exchange>>
           ELSE IF ~outcome.text.json
           THEN /\ call' = [call EXCEPT ![c] =
                        [rec EXCEPT !.pc = "raised",
                                    !.error = handleError("Unexpected token")]]
                /\ UNCHANGED <<accessToken, exchange>>
           ELSE /\ call' = [call EXCEPT ![c] = [rec EXCEPT !.pc = "updated"]]
                /\ accessToken' = Some(BuildToken(outcome.text.value, now))
                /\ exchange' = Some([by |-> c, at |-> now, outcome |-> outcome])

\* the method continues after `await this.updateToken()`
Resume(c) ==
    /\ call[c].pc = "updated"
    /\ UNCHANGED <<accessToken, now, started, ticks, exchange>>
    /\ call' = [call EXCEPT ![c] = IssueGet(call[c])]

\* the GET settles: fetch rejects, or it resolves and the then-handler
\* parses the text and returns the projection; a throw goes to the
\* catch-handler
GetSettled(c, outcome) ==
    /\ call[c].pc = "awaitGet"
    /\ UNCHANGED <<accessToken, now, started, ticks, exchange>>
    /\ LET rec == [call[c] EXCEPT !.getOutcome = outcome]
       IN  call' = [call EXCEPT ![c] =
                IF outcome.kind = "reject"
                THEN [rec EXCEPT !.pc = "raised",
                                 !.error = handleError("fetch failed")]
                ELSE IF ~outcome.text.json
                THEN [rec EXCEPT !.pc = "raised",
                                 !.error = handleError("Unexpected token")]
                ELSE [rec EXCEPT !.pc = "returned",
                                 !.result =
                                     Project(rec.op, outcome.text.value)]]

\* Date.now() advances
Tick(d) ==
    /\ ticks < MaxTicks
    /\ ticks' = ticks + 1
    /\ now' = now + d
    /\ UNCHANGED <<accessToken, call, started, exchange>>

\* a caller invokes one of the six operations
Invoke(c) ==
    \/ \E arg \in {Undefined} \cup {Some(q) : q \in QueryParams} :
            Start(c, "getDeviceList", arg, "")
    \/ \E id \in DeviceIds :
            \E op \in {"getDevice", "getDeviceSamples"} : Start(c, op, Undefined, id)
    \/ Start(c, "getLocations", Undefined, "")
    \/ \E id \in LocationIds :
            \E op \in {"getLocation", "getLocationSamples"} : Start(c, op, Undefined, id)

\* one invocation at a time: every call is awaited before the next is made
Next ==
    \/ Invoke(Caller)
    \/ \E o \in TokenOutcomes : TokenSettled(Caller, o)
    \/ Resume(Caller)
    \/ /\ call[Caller].pc = "awaitGet"
       /\ \E o \in GetOutcomes(call[Caller].op) : GetSettled(Caller, o)
    \/ \E d \in TickSteps : Tick(d)

Spec == Init /\ [][Next]_vars

\* the operations invoked concurrently
InvokeRace(c) ==
    \/ \E id \in DeviceIds : Start(c, "getDevice", Undefined, id)
    \/ \E id \in LocationIds : Start(c, "getLocation", Undefined, id)

\* invocations made without awaiting the previous one
NextRace ==
    \/ \E c \in Calls : InvokeRace(c)
    \/ \E c \in Calls : \E o \in TokenOutcomes : TokenSettled(c, o)
    \/ \E c \in Calls : Resume(c)
    \/ \E c \in Calls :
            /\ call[c].pc = "awaitGet"
            /\ \E o \in GetOutcomes(call[c].op) : GetSettled(c, o)
    \/ \E d \in TickSteps : Tick(d)

SpecRace == Init /\ [][NextRace]_vars


(***************************************************************************)
(* Properties.                                                             *)
(***************************************************************************)

\* the validity rule of the specification: a token exists and
\* expiresAt - skew > t
SkewValid(tok, t) ==
    /\ tok # Null
    /\ ~tok[1].expiresAt.nan
    /\ tok[1].expiresAt.n - Skew > t

\* the cached token was built from a 200 response of the token endpoint
FetchedOk ==
    /\ exchange # Undefined
    /\ exchange[1].outcome.status = 200

\* C1: a fresh client has no cached token, and the first call made on it
\* issues exactly one token POST, which has completed when the call's GET
\* is issued.
C1_FirstCallFetchesOnce ==
    /\ started = 0 => accessToken = Null
    /\ \A c \in Calls :
          call[c].first =>
            /\ call[c].posts = 1
            /\ call[c].gets > 0 => call[c].postsDone = 1

\* the first call has issued its GET
C1_Witness ==
    \E c \in Calls : call[c].first /\ call[c].gets = 1 /\ call[c].pc = "awaitGet"

\* C5: a call that starts while the cached token is valid under the skew
\* rule issues no token POST; its first step issues the GET with the
\* cached token.
C5_ValidTokenNoFetch ==
    [][\A c \in Calls :
          (started' = started + 1 /\ call'[c] # call[c]
              /\ SkewValid(accessToken, now))
          => /\ call'[c].posts = 0
             /\ call'[c].pc = "awaitGet"
             /\ call'[c].gets = 1
             /\ call'[c].tokenAtGet = accessToken
             /\ call'[c].authorization
                    = "Bearer " \o StrOfString(accessToken[1].token)
             /\ accessToken' = accessToken]_vars

\* a second call went to its GET without a POST, with a token that is
\* valid under the skew rule
C5_Witness ==
    \E c \in Calls :
        /\ started = 2
        /\ call[c].posts = 0
        /\ call[c].pc = "awaitGet"
        /\ call[c].tokenAtGet = accessToken
        /\ SkewValid(accessToken, now)

\* the times around the boundary expiresAt - skew of the cached token
NearBoundary == {accessToken[1].expiresAt.n - Skew + d : d \in -2 .. 2} \cup {now}

\* C6 (as amended): an absent token is always invalid; a successfully
\* fetched token is reported invalid exactly when now > expiresAt - skew,
\* so that it is still valid at the boundary now = expiresAt - skew.
C6_ExpiredAfterBoundary ==
    /\ isTokenExpired(Null, now)
    /\ FetchedOk =>
          \A t \in NearBoundary :
              isTokenExpired(accessToken, t)
                  <=> t > accessToken[1].expiresAt.n - Skew

\* C6 (as stated): a successfully fetched token is reported invalid exactly
\* when now >= expiresAt - skew, the boundary included.
C6_ExpiredAtBoundary ==
    /\ isTokenExpired(Null, now)
    /\ FetchedOk =>
          \A t \in NearBoundary :
              isTokenExpired(accessToken, t)
                  <=> t >= accessToken[1].expiresAt.n - Skew

\* the clock is at the boundary of a successfully fetched token, and a
\* call has been started there
C6_Witness ==
    /\ FetchedOk
    /\ now = accessToken[1].expiresAt.n - Skew
    /\ ~isTokenExpired(accessToken, now)
    /\ \E c \in Calls : call[c].posts = 0 /\ call[c].pc = "awaitGet"


\* the token exchange of a call failed: transport failure or non-2xx status
TokenFailed(o) ==
    \/ o.kind = "reject"
    \/ o.kind = "response" /\ ~(o.status \in 200 .. 299)

\* C2: when the token exchange fails (transport failure or non-2xx
\* response), the call raises and the cached token is left as it was.
C2_FailedExchangeKeepsToken ==
    [][\A c \in Calls :
          (call[c].pc = "awaitToken" /\ call'[c].pc # "awaitToken"
              /\ TokenFailed(call'[c].tokenOutcome))
          => /\ call'[c].pc = "raised"
             /\ accessToken' = accessToken]_vars

\* C3: when the token endpoint answers 401, getDevice raises and issues
\* no resource GET.
C3_Unauthorized ==
    \A c \in Calls :
        (/\ call[c].op = "getDevice"
         /\ call[c].tokenOutcome.kind = "response"
         /\ call[c].tokenOutcome.status = 401)
        => /\ call[c].gets = 0
           /\ call[c].pc # "returned"

\* C4: with a successfully fetched token, when the resource endpoint
\* answers 500, getDeviceSamples raises instead of returning, and the
\* cached token is the one the GET was sent with.
C4_ServerError ==
    \A c \in Calls :
        (/\ call[c].op = "getDeviceSamples"
         /\ FetchedOk
         /\ call[c].getOutcome.kind = "response"
         /\ call[c].getOutcome.status = 500)
        => /\ call[c].pc = "raised"
           /\ accessToken = call[c].tokenAtGet

\* C7: a token fetched at time T with expires_in = 3600 (seconds) is
\* reported valid 3599 seconds after T and invalid from 3600 seconds on.
C7_SameTimeUnit ==
    (/\ FetchedOk
     /\ exchange[1].outcome.text.value.expires_in = 3600)
    => /\ now = exchange[1].at + 3599 * 1000 => ~isTokenExpired(accessToken, now)
       /\ now >= exchange[1].at + 3600 * 1000 => isTokenExpired(accessToken, now)

\* the query string the documentation of getDeviceList describes: each
\* field the caller omits takes its default
DocumentedQuery(arg) ==
    LET given == IF arg = Undefined THEN DefaultQueryParams ELSE arg[1]
        value(f) == IF f \in DOMAIN given THEN given[f] ELSE DefaultQueryParams[f]
    IN  "/v1/devices?showInactive="
            \o (IF value("showInactive") THEN "true" ELSE "false")
            \o "&limit=" \o ToString(value("limit"))
            \o "&offset=" \o ToString(value("offset"))

\* C8: the GET of getDeviceList targets
\* /v1/devices?showInactive=<s>&limit=<l>&offset=<o>, with the default of
\* every field the caller omits.
C8_DefaultsPerField ==
    \A c \in Calls :
        (call[c].op = "getDeviceList" /\ call[c].gets = 1)
        => call[c].url
              = "https://ext-api.airthings.com" \o DocumentedQuery(call[c].queryParams)

\* C9: on a successful response getDeviceSamples returns the data field of
\* the body, getDeviceList the devices array, getLocations the locations
\* array, and the other operations the body.
C9_Projection ==
    \A c \in Calls :
        (/\ call[c].getOutcome.kind = "response"
         /\ call[c].getOutcome.status = 200)
        => LET body == call[c].getOutcome.text.value
           IN  /\ call[c].pc = "returned"
               /\ call[c].result =
                     CASE call[c].op = "getDeviceSamples" -> Some(body.data)
                       [] call[c].op = "getDeviceList" -> Some(body.devices)
                       [] call[c].op = "getLocations" -> Some(body.locations)
                       [] OTHER -> Some(body)

\* both calls have refreshed the token, and both exchanges succeeded
BothRefreshed ==
    \A c \in Calls :
        /\ call[c].postsDone = 1
        /\ call[c].tokenOutcome.kind = "response"
        /\ call[c].tokenOutcome.status = 200

\* C10: when two concurrent calls both refresh the token successfully, the
\* cached token is the one of the exchange stored last, and each call's GET
\* is issued with a token of a successful exchange that is valid, under the
\* skew rule, at that moment.
C10_BenignRace ==
    [][BothRefreshed' =>
          /\ accessToken'
                = Some(BuildToken(exchange'[1].outcome.text.value, exchange'[1].at))
          /\ \A c \in Calls :
                (call[c].pc # "awaitGet" /\ call'[c].pc = "awaitGet")
                => /\ call'[c].tokenAtGet = accessToken'
                   /\ exchange'[1].outcome.status = 200
                   /\ SkewValid(accessToken', now')]_vars

\* C11: every resource GET is issued with the cached token, which is
\* non-null and valid under the skew rule at that moment, and a call that
\* starts with an absent or expired token refreshes it.
C11_GetCarriesValidToken ==
    [][\A c \in Calls :
          /\ call'[c].gets > call[c].gets
                => /\ accessToken' # Null
                   /\ call'[c].tokenAtGet = accessToken'
                   /\ SkewValid(accessToken', now')
          /\ (started' = started + 1 /\ call'[c] # call[c]
                /\ ~SkewValid(accessToken, now))
                => call'[c].posts = 1]_vars

\* C12: the cached token is null, and no exchange has stored a token, or it
\* is the token built from the last completed exchange, which succeeded;
\* once non-null it stays non-null, and only a successful exchange changes
\* it.
C12_TokenOfLastSuccess ==
    /\ [](IF accessToken = Null
          THEN exchange = Undefined
          ELSE /\ FetchedOk
               /\ accessToken
                     = Some(BuildToken(exchange[1].outcome.text.value,
                                       exchange[1].at)))
    /\ [][/\ accessToken # Null => accessToken' # Null
          /\ accessToken' # accessToken
                => \E c \in Calls :
                      /\ call[c].pc = "awaitToken"
                      /\ call'[c].pc = "updated"
                      /\ ~TokenFailed(call'[c].tokenOutcome)]_vars

\* C13: an invocation issues at most one token POST and at most one GET,
\* exactly one GET when it returns a result; after a failed POST no GET is
\* issued, and a failed POST or GET makes the invocation raise.
C13_OneRequestEach ==
    \A c \in Calls :
        /\ call[c].posts <= 1
        /\ call[c].postsDone <= call[c].posts
        /\ call[c].gets <= 1
        /\ call[c].pc = "returned" => call[c].gets = 1
        /\ TokenFailed(call[c].tokenOutcome)
              => call[c].gets = 0 /\ call[c].pc = "raised"
        /\ TokenFailed(call[c].getOutcome) => call[c].pc = "raised"

====
